---- MODULE Spec2Model ----
(***************************************************************************)
(* archivr: the AI tagging pipeline.                                       *)
(*                                                                         *)
(*   analyzePost  (src/lib/ai/openrouter.ts)   one post through the free   *)
(*                and paid model lists, via callApiRoute -> POST (the      *)
(*                /api/ai route) -> callOpenRouter -> OpenRouter.          *)
(*   handleAIAutoTag (src/app/dashboard/layout.tsx)  the batch over the    *)
(*                snapshot of not-yet-analyzed posts, with its retry pass. *)
(*                                                                         *)
(* Error messages are JavaScript strings that the code only inspects with  *)
(* String.includes and ===.  A message is modelled by its fixed head, the  *)
(* status interpolated into it and the set of inspected words that occur   *)
(* in the interpolated upstream body.                                      *)
(***************************************************************************)
EXTENDS Integers, Sequences, FiniteSets, TLC

\* ------------------------------------------------------------------ bounds
\* how many of the inspected words one upstream error body may contain
MaxBodyWords == 1

\* ------------------------------------------------------- static configuration
FREE_MODELS ==
  << "mistralai/mistral-small-3.1-24b-instruct:free",
     "meta-llama/llama-3.3-70b-instruct:free",
     "google/gemma-3-27b-it:free",
     "qwen/qwen3-14b:free",
     "deepseek/deepseek-r1-0528:free" >>

PAID_MODELS ==
  << "mistralai/mistral-small-3.1-24b-instruct",
     "google/gemma-3-12b-it" >>

ALL_MODELS == FREE_MODELS \o PAID_MODELS

\* --------------------------------------------------------------- messages
\* the substrings the route and analyzePost look for in an error message
Keywords ==
  {"429", "rate", "401", "invalid", "Unauthorized", "402", "insufficient", "payment"}

Bodies == {b \in SUBSET Keywords : Cardinality(b) <= MaxBodyWords}

Msg(head, status, body) == [head |-> head, status |-> status, body |-> body]

NoMsg == Msg("", 0, {})

\* new Error('NO_API_KEY') and the like: a message that is exactly the code
CodeError(code) == Msg(code, 0, {})

\* message.includes(word), for the words of Keywords: none of the fixed heads
\* ("OpenRouter API error (", "No content in OpenRouter response",
\* "fetch failed") contains one, so a word occurs in the message iff it is the
\* interpolated status or occurs in the interpolated body
Includes(m, word) ==
  \/ word \in m.body
  \/ m.status # 0 /\ ToString(m.status) = word

\* -------------------------------------------------------- upstream answers
\* what OpenRouter answers to one chat-completion request.  status 0: the
\* fetch itself rejects.  A 200 carries a completion text, here by the way
\* the route's decoder sees it ("" is a response without content).
ErrorStatuses == {401, 402, 429, 500}

Contents == {"", "json-result", "json-other", "not-json"}

Upstream(status, body, content) ==
  [status |-> status, body |-> body, content |-> content]

Responses ==
  {Upstream(s, b, "") : s \in ErrorStatuses, b \in Bodies}
    \cup {Upstream(200, {}, c) : c \in Contents}
    \cup {Upstream(0, {}, "")}

NoResponse == Upstream(-1, {}, "")

\* ----------------------------------------------------------------- results
\* a value the route hands back as `result`; hasTags is FALSE for a parsed
\* JSON value that has no `tags` member (result.tags is undefined)
AnalysisValue(hasTags, tags, mood, confidence) ==
  [hasTags |-> hasTags, tags |-> tags, mood |-> mood, confidence |-> confidence]

\* confidence in hundredths
Fallback == AnalysisValue(TRUE, <<"untagged">>, "neutral", 30)

ModelResult == AnalysisValue(TRUE, <<"recipe", "dark-moody", "travel", "quote">>, "calm", 85)

OtherJson == AnalysisValue(FALSE, <<>>, "", 0)

NoResult == AnalysisValue(FALSE, <<>>, "none", 0)

\* ------------------------------------------------------- the result decoder
\* A completion text is a sequence of tokens: the four brackets, a member key
\* with its colon, a string literal, a number literal or a word of prose.
\* Commas and white space are left out.  BraceString is a string literal that
\* has a "{" and a "}" inside, which the regular expressions of the route see.
\* bound: the length of the arbitrary texts the decoder is run against
MaxTextLen == 4

KeyTokens == {"tags:", "mood:", "confidence:", "suggestedCollection:"}

BraceString == "Trips {2024}"

BraceFragment == "{2024}"

StringTokens ==
  {"recipe", "dark-moody", "travel", "quote", "calm", "untagged", "neutral",
   BraceString}

NumberTokens == {"0.3", "0.85"}

ProseTokens == {"Sure"}

\* a number literal for a confidence in hundredths, and back
NumberToken(confidence) == IF confidence = 30 THEN "0.3" ELSE "0.85"

NumberValue(token) == IF token = "0.3" THEN 30 ELSE 85

\* a parsed JSON value, tagged by its type: text for a string or a number,
\* items for an array, keys and items side by side for an object
JValue(t, text, keys, items) ==
  [t |-> t, text |-> text, keys |-> keys, items |-> items]

JString(text) == JValue("string", text, <<>>, <<>>)

JNumber(text) == JValue("number", text, <<>>, <<>>)

JArray(items) == JValue("array", "", <<>>, items)

JObject(keys, items) == JValue("object", "", keys, items)

NoJson == JValue("undefined", "", <<>>, <<>>)

Parsed(value, next) == [ok |-> TRUE, value |-> value, next |-> next]

SyntaxError == [ok |-> FALSE, value |-> NoJson, next |-> 0]

\* obj[key] = value: a repeated key keeps its place and takes the new value
SetMember(keys, items, key, value) ==
  IF \E k \in 1..Len(keys) : keys[k] = key
    THEN [keys  |-> keys,
          items |-> [k \in 1..Len(items) |-> IF keys[k] = key THEN value ELSE items[k]]]
    ELSE [keys |-> Append(keys, key), items |-> Append(items, value)]

\* JSON.parse, by recursive descent from token i on
RECURSIVE ParseValue(_, _), ParseItems(_, _, _), ParseMembers(_, _, _, _)
ParseValue(tokens, i) ==
  IF i > Len(tokens) THEN SyntaxError
  ELSE IF tokens[i] \in StringTokens THEN Parsed(JString(tokens[i]), i + 1)
  ELSE IF tokens[i] \in NumberTokens THEN Parsed(JNumber(tokens[i]), i + 1)
  ELSE IF tokens[i] = "[" THEN ParseItems(tokens, i + 1, <<>>)
  ELSE IF tokens[i] = "{" THEN ParseMembers(tokens, i + 1, <<>>, <<>>)
  ELSE SyntaxError

ParseItems(tokens, i, items) ==
  IF i > Len(tokens) THEN SyntaxError
  ELSE IF tokens[i] = "]" THEN Parsed(JArray(items), i + 1)
  ELSE LET item == ParseValue(tokens, i)
       IN  IF item.ok THEN ParseItems(tokens, item.next, Append(items, item.value))
           ELSE SyntaxError

ParseMembers(tokens, i, keys, items) ==
  IF i > Len(tokens) THEN SyntaxError
  ELSE IF tokens[i] = "}" THEN Parsed(JObject(keys, items), i + 1)
  ELSE IF tokens[i] \in KeyTokens
    THEN LET member == ParseValue(tokens, i + 1)
             object == SetMember(keys, items, tokens[i], member.value)
         IN  IF member.ok
               THEN ParseMembers(tokens, member.next, object.keys, object.items)
               ELSE SyntaxError
  ELSE SyntaxError

\* JSON.parse(text): the whole text must be one value
JSONparse(tokens) ==
  LET r == ParseValue(tokens, 1)
  IN  IF r.ok /\ r.next = Len(tokens) + 1 THEN r ELSE SyntaxError

\* JSON.stringify of a value that was parsed
RECURSIVE JSONstringify(_), StringifyAll(_, _)
JSONstringify(value) ==
  CASE value.t \in {"string", "number"} -> <<value.text>>
    [] value.t = "array" ->
         <<"[">> \o StringifyAll(<<>>, value.items) \o <<"]">>
    [] value.t = "object" ->
         <<"{">> \o StringifyAll(value.keys, value.items) \o <<"}">>
    [] OTHER -> <<>>

StringifyAll(keys, items) ==
  IF items = <<>> THEN <<>>
  ELSE (IF keys = <<>> THEN <<>> ELSE <<Head(keys)>>)
         \o JSONstringify(Head(items))
         \o StringifyAll(IF keys = <<>> THEN <<>> ELSE Tail(keys), Tail(items))

\* text.match(/\{[\s\S]*\}/): from the first "{" to the last "}" of the text,
\* null (<<>>) when no "}" follows the first "{".  A match that begins or ends
\* inside BraceString is given as <<BraceFragment>>: it is not JSON.
Positions(tokens, marks) == {i \in 1..Len(tokens) : tokens[i] \in marks}

Min(S) == CHOOSE x \in S : \A y \in S : x <= y

Max(S) == CHOOSE x \in S : \A y \in S : x >= y

GreedyMatchLazy(tokens, open, close) ==
  LET inString == IF open = "{" THEN {BraceString} ELSE {}
      from     == Positions(tokens, {open} \cup inString)
      to       == {j \in Positions(tokens, {close} \cup inString) :
                     from # {} /\ j >= Min(from)}
  IN  IF from = {} \/ to = {} THEN <<>>
      ELSE IF Min(to) = Min(from) /\ tokens[Min(from)] # BraceString THEN <<>>
      ELSE IF tokens[Min(from)] = BraceString \/ tokens[Min(to)] = BraceString
        THEN <<BraceFragment>>
      ELSE SubSeq(tokens, Min(from), Min(to))

GreedyMatch(tokens, open, close) ==
  LET inString == IF open = "{" THEN {BraceString} ELSE {}
      from     == Positions(tokens, {open} \cup inString)
      to       == Positions(tokens, {close} \cup inString)
  IN  IF from = {} \/ to = {} \/ Max(to) < Min(from) THEN <<>>
      ELSE IF Max(to) = Min(from) /\ tokens[Min(from)] # BraceString THEN <<>>
      ELSE IF tokens[Min(from)] = BraceString \/ tokens[Max(to)] = BraceString
        THEN <<BraceFragment>>
      ELSE SubSeq(tokens, Min(from), Max(to))

\* the fallback of route.ts lines 53-57
FallbackJson ==
  JObject(<<"tags:", "mood:", "confidence:">>,
          <<JArray(<<JString("untagged")>>), JString("neutral"), JNumber("0.3")>>)

\* route.ts lines 42-58: the object match or else the array match, parsed;
\* no match or a syntax error gives the fallback
DecodeText(rawResponse) ==
  LET objectMatch == GreedyMatch(rawResponse, "{", "}")
      arrayMatch  == GreedyMatch(rawResponse, "[", "]")
      jsonMatch   == IF objectMatch # <<>> THEN objectMatch ELSE arrayMatch
      parsed      == JSONparse(jsonMatch)
  IN  IF jsonMatch = <<>> \/ ~parsed.ok THEN FallbackJson ELSE parsed.value

\* the member of an object, NoJson (undefined) when it has none or the value
\* is no object
Member(value, key) ==
  IF value.t = "object" /\ \E k \in 1..Len(value.keys) : value.keys[k] = key
    THEN value.items[CHOOSE k \in 1..Len(value.keys) : value.keys[k] = key]
    ELSE NoJson

IsStringArray(value) ==
  value.t = "array" /\ \A k \in 1..Len(value.items) : value.items[k].t = "string"

\* what the callers of analyzePost read from a decoded result: result.tags
\* (usable by bulkAddTags when it is an array of strings), mood, confidence
ResultOf(value) ==
  LET tags       == Member(value, "tags:")
      mood       == Member(value, "mood:")
      confidence == Member(value, "confidence:")
  IN  AnalysisValue(IsStringArray(tags),
                    IF IsStringArray(tags)
                      THEN [k \in 1..Len(tags.items) |-> tags.items[k].text] ELSE <<>>,
                    IF mood.t = "string" THEN mood.text ELSE "",
                    IF confidence.t = "number" THEN NumberValue(confidence.text) ELSE 0)

\* the JSON value and the JSON text of an analysis result
JsonOf(result) ==
  JObject(<<"tags:", "mood:", "confidence:">>,
          <<JArray([k \in 1..Len(result.tags) |-> JString(result.tags[k])]),
            JString(result.mood), JNumber(NumberToken(result.confidence))>>)

\* the completion texts behind the three kinds of content
TextOf(content) ==
  CASE content = "json-result" -> JSONstringify(JsonOf(ModelResult))
    [] content = "json-other"  -> <<"{", "}">>
    [] OTHER                   -> <<"Sure">>

\* the route's result for a completion of the given kind
Decode(content) == ResultOf(DecodeText(TextOf(content)))

\* the route between callOpenRouter's return and its own response
IdleRoute == [pc |-> "idle", rawResponse |-> <<>>, result |-> NoJson]

\* the tokens of the arbitrary texts
TextAlphabet == {"{", "}", "[", "]", "tags:", "mood:", "calm", "Sure"}

ShortTexts ==
  LET texts[n \in 0..MaxTextLen] ==
        IF n = 0 THEN {<<>>}
        ELSE texts[n - 1] \cup
             {Append(t, token) : t \in texts[n - 1], token \in TextAlphabet}
  IN  texts[MaxTextLen] \ {<<>>}

\* analysis results as the prompt asks for them: four tags, a mood, a confidence
BraceResult == AnalysisValue(TRUE, <<"travel", "quote", "calm", "recipe">>, BraceString, 85)

ValidResults == {ModelResult, BraceResult}

\* a result as JSON text, alone, inside prose, inside an array, and two
\* results one after the other
ResultTexts ==
  LET text(v) == JSONstringify(JsonOf(v))
  IN  UNION {{text(v), <<"Sure">> \o text(v), text(v) \o <<"Sure">>,
              <<"Sure">> \o text(v) \o <<"Sure", BraceString>>,
              <<"[">> \o text(v) \o <<"]">>} : v \in ValidResults \cup {Fallback}}
      \cup {text(v) \o <<"Sure">> \o text(w) : v, w \in ValidResults}

\* callOpenRouter returns a non-empty text
Texts == ShortTexts \cup ResultTexts

\* ----------------------------------------------------------------- gateway
Returned(value) == [ok |-> TRUE, value |-> value, content |-> "", err |-> NoMsg]

Thrown(m) == [ok |-> FALSE, value |-> NoResult, content |-> "", err |-> m]

\* callOpenRouter: one request; non-2xx, missing content and a rejected fetch
\* all throw
callOpenRouter(up) ==
  IF up.status = 0 THEN Thrown(Msg("fetch failed", 0, {}))
  ELSE IF up.status # 200
    THEN Thrown(Msg("OpenRouter API error", up.status, up.body))
  ELSE IF up.content = ""
    THEN Thrown(Msg("No content in OpenRouter response", 0, {}))
  ELSE [ok |-> TRUE, value |-> NoResult, content |-> up.content, err |-> NoMsg]

\* process.env.OPENROUTER_API_KEY of the deployment: not set (README)
EnvKey == ""

\* the /api/ai route: the HTTP response it sends for one request
HttpResponse(status, result, error) ==
  [status |-> status, result |-> result, error |-> error]

OriginalStatus(m) == IF m.head = "OpenRouter API error" THEN m.status ELSE 0

RouteErrorStatus(m) ==
  LET isRateLimit == Includes(m, "429") \/ Includes(m, "rate")
      isAuth      == Includes(m, "401") \/ Includes(m, "Unauthorized")
      isPayment   == Includes(m, "402") \/ Includes(m, "insufficient")
  IN  IF isRateLimit THEN 429
      ELSE IF isAuth THEN 401
      ELSE IF isPayment THEN 402
      ELSE IF OriginalStatus(m) # 0 THEN OriginalStatus(m)
      ELSE 500

POST(model, clientKey, up) ==
  IF model = ""
    THEN HttpResponse(400, NoResult, Msg("Missing required fields: prompt and model", 0, {}))
  ELSE IF clientKey = "" /\ EnvKey = ""
    THEN HttpResponse(401, NoResult,
           Msg("No API key provided. Please add your OpenRouter API key in Settings.", 0, {}))
  ELSE LET raw == callOpenRouter(up)
       IN  IF raw.ok
             THEN HttpResponse(200, Decode(raw.content), NoMsg)
             ELSE HttpResponse(RouteErrorStatus(raw.err), NoResult, raw.err)

\* callApiRoute: the client side of the route; error.error is the route's
\* message, never empty
callApiRoute(model, key, up) ==
  LET response == POST(model, key, up)
  IN  IF response.status >= 200 /\ response.status <= 299
        THEN Returned(response.result)
        ELSE Thrown(response.error)

\* ------------------------------------------------------------ credentials
\* localStorage['archivr-openrouter-key']: "" is both "never stored" and a
\* stored empty string; getStoredApiKey maps either to null
Keys == {"", "sk-or-v1"}

getStoredApiKey(stored) == stored

hasApiKey(stored) == getStoredApiKey(stored) # ""

\* ------------------------------------------------------------- analyzePost
Urls == {"https://www.instagram.com/p/a", "https://www.instagram.com/p/b"}

Captions == {"", "sunset"}

\* the prompt is the fixed template around the url and, when the caption is
\* truthy, the caption line
buildTaggingPrompt(url, caption) ==
  [url |-> url, captionLine |-> IF caption # "" THEN <<caption>> ELSE <<>>]

NoPrompt == [url |-> "", captionLine |-> <<>>]

\* one invocation of analyzePost: where it is (pc, next model index i), what
\* it captured (prompt, apiKey), how it ended (result, error), and its
\* history: the models called, the last upstream answer, how many free models
\* answered 429, how many free answers went down the rate-limit branches, how
\* many answers were successes, how many calls were made after a success,
\* whether every answer so far was a 429, and the onStatusUpdate calls
IdleCall ==
  [pc |-> "idle", i |-> 0, prompt |-> NoPrompt, apiKey |-> "",
   result |-> NoResult, error |-> NoMsg,
   calls |-> <<>>, last |-> NoResponse, free429 |-> 0, freeRateLimited |-> 0,
   successes |-> 0, afterSuccess |-> 0, only429 |-> TRUE, notes |-> <<>>]

Ended(st) == st.pc \in {"returned", "thrown"}

Throw(st, m) == [st EXCEPT !.pc = "thrown", !.error = m]

\* after the free loop: the paid loop, or line 186 when there is no paid model
EnterPaid(st) ==
  IF Len(PAID_MODELS) > 0
    THEN [st EXCEPT !.pc = "paid", !.i = 1]
    ELSE Throw(st, CodeError("ALL_MODELS_FAILED"))

\* analyzePost without the early NO_API_KEY return
analyzePostStartUnchecked(url, caption, stored) ==
  LET st == [IdleCall EXCEPT !.prompt = buildTaggingPrompt(url, caption),
                             !.apiKey = getStoredApiKey(stored)]
  IN  IF Len(FREE_MODELS) > 0 THEN [st EXCEPT !.pc = "free", !.i = 1]
      ELSE EnterPaid(st)

\* lines 133-138 and the entry of the free loop
analyzePostStart(url, caption, stored) ==
  LET st == [IdleCall EXCEPT !.prompt = buildTaggingPrompt(url, caption),
                             !.apiKey = getStoredApiKey(stored)]
  IN  IF st.apiKey = "" THEN Throw(st, CodeError("NO_API_KEY"))
      ELSE IF Len(FREE_MODELS) > 0 THEN [st EXCEPT !.pc = "free", !.i = 1]
      ELSE EnterPaid(st)

\* the history part of one gateway call
Record(st, model, up) ==
  [st EXCEPT !.calls = Append(st.calls, model),
             !.last = up,
             !.free429 = IF st.pc = "free" /\ up.status = 429 THEN @ + 1 ELSE @,
             !.successes = IF up.status = 200 /\ up.content # "" THEN @ + 1 ELSE @,
             !.afterSuccess = IF st.successes > 0 THEN @ + 1 ELSE @,
             !.only429 = @ /\ up.status = 429]

\* a free catch block that tries the same model again after a rate limit
FreeCatchRetriesModel(st, message) ==
  LET isRateLimit == Includes(message, "429") \/ Includes(message, "rate")
  IN  IF isRateLimit /\ st.i < Len(FREE_MODELS) /\ st.freeRateLimited < st.i
        THEN [st EXCEPT !.freeRateLimited = @ + 1]
      ELSE IF isRateLimit /\ st.i < Len(FREE_MODELS)
        THEN [st EXCEPT !.i = st.i + 1]
      ELSE IF isRateLimit /\ st.i = Len(FREE_MODELS)
        THEN EnterPaid([st EXCEPT
               !.freeRateLimited = @ + 1,
               !.notes = Append(@, "Free models are rate-limited. Trying premium models...")])
      ELSE IF \/ Includes(message, "401")
              \/ Includes(message, "invalid")
              \/ Includes(message, "Unauthorized")
        THEN Throw(st, CodeError("INVALID_KEY"))
      ELSE Throw(st, message)

\* the catch block of the free loop, lines 146-163
FreeCatch(st, message) ==
  LET isRateLimit == Includes(message, "429") \/ Includes(message, "rate")
  IN  IF isRateLimit /\ st.i < Len(FREE_MODELS)
        THEN [st EXCEPT !.i = st.i + 1,
                        !.freeRateLimited = @ + 1]
      ELSE IF isRateLimit /\ st.i = Len(FREE_MODELS)
        THEN EnterPaid([st EXCEPT
               !.freeRateLimited = @ + 1,
               !.notes = Append(@, "Free models are rate-limited. Trying premium models...")])
      ELSE IF \/ Includes(message, "401")
              \/ Includes(message, "invalid")
              \/ Includes(message, "Unauthorized")
        THEN Throw(st, CodeError("INVALID_KEY"))
      ELSE Throw(st, message)

\* a free loop that stores a success and goes on to the next model
FreeStepKeepsGoing(st, up) ==
  LET model == FREE_MODELS[st.i]
      r     == callApiRoute(model, st.apiKey, up)
      st1   == Record(st, model, up)
  IN  IF r.ok
        THEN IF st.i < Len(FREE_MODELS)
               THEN [st1 EXCEPT !.result = r.value, !.i = st.i + 1]
               ELSE [st1 EXCEPT !.pc = "returned", !.result = r.value]
      ELSE FreeCatch(st1, r.err)

\* one iteration of the free loop, lines 141-164
FreeStep(st, up) ==
  LET model == FREE_MODELS[st.i]
      r     == callApiRoute(model, st.apiKey, up)
      st1   == Record(st, model, up)
  IN  IF r.ok THEN [st1 EXCEPT !.pc = "returned", !.result = r.value]
      ELSE FreeCatch(st1, r.err)

\* a paid catch block that rethrows what it does not recognise, as the free
\* one does
PaidCatchRethrows(st, message) ==
  IF \/ Includes(message, "402")
     \/ Includes(message, "insufficient")
     \/ Includes(message, "payment")
    THEN Throw(st, CodeError("NO_CREDITS"))
  ELSE IF Includes(message, "429") /\ st.i < Len(PAID_MODELS)
    THEN [st EXCEPT !.i = st.i + 1]
  ELSE IF Includes(message, "429")
    THEN Throw(st, CodeError("ALL_MODELS_FAILED"))
  ELSE Throw(st, message)

PaidCatchRateLimitFirst(st, message) ==
  IF Includes(message, "429") /\ st.i < Len(PAID_MODELS)
    THEN [st EXCEPT !.i = st.i + 1]
  ELSE IF \/ Includes(message, "402")
          \/ Includes(message, "insufficient")
          \/ Includes(message, "payment")
    THEN Throw(st, CodeError("NO_CREDITS"))
  ELSE IF st.i = Len(PAID_MODELS)
    THEN Throw(st, CodeError("ALL_MODELS_FAILED"))
  ELSE [st EXCEPT !.i = st.i + 1]

\* a paid catch block that treats a credential error as the free one does
PaidCatchFatalOnAuth(st, message) ==
  IF \/ Includes(message, "402")
     \/ Includes(message, "insufficient")
     \/ Includes(message, "payment")
    THEN Throw(st, CodeError("NO_CREDITS"))
  ELSE IF Includes(message, "429") /\ st.i < Len(PAID_MODELS)
    THEN [st EXCEPT !.i = st.i + 1]
  ELSE IF \/ Includes(message, "401")
          \/ Includes(message, "invalid")
          \/ Includes(message, "Unauthorized")
    THEN Throw(st, CodeError("INVALID_KEY"))
  ELSE IF st.i = Len(PAID_MODELS)
    THEN Throw(st, CodeError("ALL_MODELS_FAILED"))
  ELSE [st EXCEPT !.i = st.i + 1]

\* the catch block of the paid loop, lines 172-183; falling out of the catch
\* goes to the next iteration
PaidCatch(st, message) ==
  IF \/ Includes(message, "402")
     \/ Includes(message, "insufficient")
     \/ Includes(message, "payment")
    THEN Throw(st, CodeError("NO_CREDITS"))
  ELSE IF Includes(message, "429") /\ st.i < Len(PAID_MODELS)
    THEN [st EXCEPT !.i = st.i + 1]
  ELSE IF st.i = Len(PAID_MODELS)
    THEN Throw(st, CodeError("ALL_MODELS_FAILED"))
  ELSE [st EXCEPT !.i = st.i + 1]

\* one iteration of the paid loop, lines 167-184
PaidStep(st, up) ==
  LET model == PAID_MODELS[st.i]
      r     == callApiRoute(model, st.apiKey, up)
      st1   == Record(st, model, up)
  IN  IF r.ok THEN [st1 EXCEPT !.pc = "returned", !.result = r.value]
      ELSE PaidCatch(st1, r.err)

analyzePostStep(st, up) ==
  IF st.pc = "free" THEN FreeStep(st, up) ELSE PaidStep(st, up)

\* analyzePost run to its end against a script of upstream answers, the k-th
\* answer going to the k-th gateway call; it makes at most one call per model,
\* so Len(ALL_MODELS) steps reach the end
analyzePostRun(from, script) ==
  LET after[n \in 0..Len(ALL_MODELS)] ==
        IF n = 0 THEN {from}
        ELSE {IF Ended(st) THEN st
              ELSE analyzePostStep(st, script[Len(st.calls) + 1]) :
                st \in after[n - 1]}
  IN  CHOOSE end \in after[Len(ALL_MODELS)] : TRUE

\* what the caller of analyzePost sees: the value or the error, and the
\* onStatusUpdate messages; only429: every model was called and answered 429
Outcome(st) ==
  [ok |-> st.pc = "returned", value |-> st.result, err |-> st.error, notes |-> st.notes,
   only429 |-> st.only429 /\ st.calls = ALL_MODELS]

\* the scripts the batch is run against: the first j models answer 429, every
\* later one gives the same answer, an error with an empty body or a
\* completion the route decodes to a value with or without tags
ScriptAnswers ==
  {Upstream(s, {}, "") : s \in ErrorStatuses}
    \cup {Upstream(200, {}, c) : c \in {"", "json-result", "json-other"}}

Scripts ==
  {[k \in 1..Len(ALL_MODELS) |-> IF k <= j THEN Upstream(429, {}, "") ELSE up] :
     j \in 0..Len(ALL_MODELS), up \in ScriptAnswers}

\* every outcome of analyzePost(url, caption) for a stored key, tabulated
OutcomeTable ==
  [url \in Urls |-> [caption \in Captions |->
     {Outcome(analyzePostRun(analyzePostStart(url, caption, "sk-or-v1"), script)) :
        script \in Scripts}]]

analyzePostOutcomes(url, caption) == OutcomeTable[url][caption]

\* ------------------------------------------------------------ the post store
\* bound: the posts in the store
MaxPosts == 5

PostIds == 1..MaxPosts

SavedPost(aiAnalyzed, isDeleted, tags) ==
  [aiAnalyzed |-> aiAnalyzed, isDeleted |-> isDeleted, tags |-> tags]

PostUrl(id) == IF id % 2 = 1 THEN "https://www.instagram.com/p/a"
               ELSE "https://www.instagram.com/p/b"

PostCaption(id) == IF id % 3 = 0 THEN "" ELSE "sunset"

Seen(seq) == {seq[k] : k \in 1..Len(seq)}

\* tags as a model writes them, beside the normalized ones; a tag outside
\* this set is lowercase and hyphenated already
RawTags == {"travel", "Travel", " travel", "dark-moody", "dark moody", "Dark  Moody "}

\* the characters of a raw tag, lowercase letters in runs
Spelling(tag) ==
  CASE tag = "travel"       -> <<"t", "ravel">>
    [] tag = "Travel"       -> <<"T", "ravel">>
    [] tag = " travel"      -> <<" ", "t", "ravel">>
    [] tag = "dark-moody"   -> <<"d", "ark", "-", "m", "oody">>
    [] tag = "dark moody"   -> <<"d", "ark", " ", "m", "oody">>
    [] tag = "Dark  Moody " -> <<"D", "ark", " ", " ", "M", "oody", " ">>

\* the tag that is spelled so
Named(chars) == CHOOSE tag \in RawTags : Spelling(tag) = chars

\* String.prototype.toLowerCase
toLowerCase(chars) ==
  [k \in 1..Len(chars) |->
     CASE chars[k] = "T" -> "t"
       [] chars[k] = "D" -> "d"
       [] chars[k] = "M" -> "m"
       [] OTHER          -> chars[k]]

\* String.prototype.trim
RECURSIVE trim(_)
trim(chars) ==
  IF chars = <<>> THEN <<>>
  ELSE IF Head(chars) = " " THEN trim(Tail(chars))
  ELSE IF chars[Len(chars)] = " " THEN trim(SubSeq(chars, 1, Len(chars) - 1))
  ELSE chars

\* replace(/\s+/g, '-'): every run of white space becomes one hyphen
RECURSIVE replaceSpaces(_)
replaceSpaces(chars) ==
  IF chars = <<>> THEN <<>>
  ELSE IF Head(chars) # " " THEN <<Head(chars)>> \o replaceSpaces(Tail(chars))
  ELSE IF Len(chars) > 1 /\ chars[2] = " " THEN replaceSpaces(Tail(chars))
  ELSE <<"-">> \o replaceSpaces(Tail(chars))

\* t.toLowerCase().trim().replace(/\s+/g, '-'), line 122
normalizeTag(tag) ==
  IF tag \in RawTags
    THEN Named(replaceSpaces(trim(toLowerCase(Spelling(tag)))))
    ELSE tag

\* usePostStore.bulkAddTags: the tags are normalized, those the post has
\* already are filtered out, the rest is appended; tags.map throws a TypeError
\* when tags is undefined (thrown before the store is touched)
bulkAddTags(store, postId, tags) ==
  LET normalizedTags == [k \in 1..Len(tags) |-> normalizeTag(tags[k])]
  IN  [p \in DOMAIN store |->
         IF p # postId THEN store[p]
         ELSE LET newTags == SelectSeq(normalizedTags,
                                       LAMBDA t : t \notin Seen(store[p].tags))
              IN  [store[p] EXCEPT !.tags = store[p].tags \o newTags]]

\* an update that is lost: the post keeps aiAnalyzed as it was
updatePostLost(store, postId) == store

\* usePostStore.updatePost(id, { aiAnalyzed: true })
updatePost(store, postId) ==
  [p \in DOMAIN store |->
     IF p = postId THEN [store[p] EXCEPT !.aiAnalyzed = TRUE] ELSE store[p]]

\* posts.filter(!isDeleted).filter(!aiAnalyzed), in store order
RECURSIVE UntaggedFrom(_, _)
UntaggedFrom(store, id) ==
  IF id > MaxPosts THEN <<>>
  ELSE (IF ~store[id].isDeleted /\ ~store[id].aiAnalyzed THEN <<id>> ELSE <<>>)
         \o UntaggedFrom(store, id + 1)

\* --------------------------------------------------------- handleAIAutoTag
\* the delays of the batch, in ms
PostDelay == 2500

BackoffStep == 3000

CooldownDelay == 15000

CooldownAfter == 5

ProgressEvery == 5

RetrySettleDelay == 10000

RetryOkDelay == 4000

RetryFailDelay == 5000

\* one run of handleAIAutoTag: its locals (untaggedPosts, processed,
\* consecutiveFailures, failedPosts, the two loop positions idx and ridx), the
\* component state isAutoTagging, the await it is suspended at (pc), the last
\* setTimeout delay and the toasts this invocation has raised with its own
\* addToast calls, oldest first.
\* failedPosts holds positions of untaggedPosts.  History: every analyzePost
\* call as <<position, pass>>, every processed++ likewise, the main-pass
\* positions whose analyzePost returned tags, what the last analyzePost call
\* threw (NoMsg: it returned), the position of the fatal error (0: none), how
\* often the retry pass was entered, which failed posts it skipped, and
\* whether every analyzePost call so far had all its models answer 429.
IdleRun ==
  [pc |-> "idle", isAutoTagging |-> FALSE, untaggedPosts |-> <<>>,
   processed |-> 0, consecutiveFailures |-> 0, failedPosts |-> <<>>,
   idx |-> 0, ridx |-> 0, delay |-> 0, toasts |-> <<>>,
   attempts |-> <<>>, counted |-> <<>>, returnedTags |-> {}, lastError |-> NoMsg,
   fatalAt |-> 0, retryEntered |-> 0, skipped |-> {}, only429 |-> TRUE]

\* useToastStore.addToast as the handler calls it: variant, message text and
\* the numbers interpolated into it
Toast(variant, message, counts) ==
  [variant |-> variant, message |-> message, counts |-> counts]

addToast(run, variant, message, counts) ==
  [run EXCEPT !.toasts = Append(@, Toast(variant, message, counts))]

\* lines 122-128
Finish(run) ==
  LET r1        == [run EXCEPT !.pc = "done", !.isAutoTagging = FALSE]
      remaining == Len(run.untaggedPosts) - run.processed
  IN  IF run.processed > 0
        THEN addToast(r1, "success", "Done! Analyzed posts",
                      IF remaining > 0
                        THEN <<run.processed, Len(run.untaggedPosts), remaining>>
                        ELSE <<run.processed, Len(run.untaggedPosts)>>)
        ELSE addToast(r1, "error", "All AI models are currently busy.", <<>>)

\* a second-attempt catch that leaves the post in line for another attempt
RetryCatchRepeats(run, err) ==
  [run EXCEPT !.pc = "retrySleep", !.delay = RetryFailDelay, !.lastError = err,
              !.ridx = @ - 1]

\* a retry loop without its catch: the rejection leaves the handler
RetryCatchEscapes(run, err) ==
  [run EXCEPT !.pc = "rejected", !.lastError = err]

\* a second-attempt catch that ends the run on a credential error, as the
\* catch of the main loop does
RetryCatchBreaksOnFatal(run, err) ==
  IF err \in {CodeError("NO_API_KEY"), CodeError("INVALID_KEY")}
    THEN Finish([run EXCEPT !.lastError = err])
    ELSE [run EXCEPT !.pc = "retrySleep", !.delay = RetryFailDelay, !.lastError = err]

\* the second-attempt catch, lines 115-118
RetryCatch(run, err) ==
  [run EXCEPT !.pc = "retrySleep", !.delay = RetryFailDelay, !.lastError = err]

\* the retry loop from its next position on, lines 104-110, up to the await
\* of analyzePost (which throws at once when no key is stored)
RECURSIVE RetryLoop(_, _, _)
RetryLoop(run, store, stored) ==
  IF run.ridx >= Len(run.failedPosts) THEN Finish(run)
  ELSE LET pos  == run.failedPosts[run.ridx + 1]
           post == run.untaggedPosts[pos]
           r1   == [run EXCEPT !.ridx = @ + 1]
       IN  IF store[post].aiAnalyzed
             THEN RetryLoop([r1 EXCEPT !.skipped = @ \cup {pos}], store, stored)
           ELSE LET r2 == [r1 EXCEPT !.attempts = Append(@, <<pos, "retry">>)]
                    st == analyzePostStart(PostUrl(post), PostCaption(post), stored)
                IN  IF st.pc = "thrown"
                      THEN RetryCatch([r2 EXCEPT !.only429 = FALSE], st.error)
                    ELSE [r2 EXCEPT !.pc = "retryCall"]

\* a retry guard that asks for some progress in the main pass
AfterMainNeedsProgress(run) ==
  IF Len(run.failedPosts) > 0 /\ run.processed > 0
    THEN addToast([run EXCEPT !.pc = "retrySettle",
                              !.retryEntered = @ + 1,
                              !.delay = RetrySettleDelay],
                  "ai", "Retrying failed posts with longer delays...",
                  <<Len(run.failedPosts)>>)
    ELSE Finish(run)

\* lines 99-102 and, when the guard is false, 122-128
AfterMain(run) ==
  IF Len(run.failedPosts) > 0 /\ run.consecutiveFailures < CooldownAfter
    THEN addToast([run EXCEPT !.pc = "retrySettle",
                              !.retryEntered = @ + 1,
                              !.delay = RetrySettleDelay],
                  "ai", "Retrying failed posts with longer delays...",
                  <<Len(run.failedPosts)>>)
    ELSE Finish(run)

\* the history of a caught main-pass error: what was thrown, and the position
\* when it was NO_API_KEY or INVALID_KEY
Caught(run, err) ==
  [run EXCEPT !.lastError = err,
              !.fatalAt = IF err \in {CodeError("NO_API_KEY"), CodeError("INVALID_KEY")}
                            THEN run.idx ELSE @]

\* a catch block that records the post before it looks at the code
MainCatchPushFirst(run, err) ==
  LET r1 == [Caught(run, err) EXCEPT !.consecutiveFailures = @ + 1,
                                     !.failedPosts = Append(@, run.idx)]
  IN  IF err = CodeError("NO_API_KEY")
        THEN AfterMain(addToast(r1, "error", "Please add your OpenRouter API key in Settings.", <<>>))
      ELSE IF err = CodeError("INVALID_KEY")
        THEN AfterMain(addToast(r1, "error", "Your API key is invalid. Please check it in Settings.", <<>>))
      ELSE IF r1.consecutiveFailures >= CooldownAfter
        THEN addToast([r1 EXCEPT !.pc = "mainCooldown", !.delay = CooldownDelay],
                      "info", "Rate limited. Waiting 15s before continuing...", <<>>)
      ELSE [r1 EXCEPT !.pc = "mainBackoff",
                      !.delay = BackoffStep * r1.consecutiveFailures]

\* a catch block that stops the pass on NO_CREDITS as well
MainCatchStopsOnNoCredits(run, err) ==
  LET r1 == [Caught(run, err) EXCEPT !.consecutiveFailures = @ + 1]
  IN  IF err = CodeError("NO_API_KEY")
        THEN AfterMain(addToast(r1, "error", "Please add your OpenRouter API key in Settings.", <<>>))
      ELSE IF err = CodeError("INVALID_KEY")
        THEN AfterMain(addToast(r1, "error", "Your API key is invalid. Please check it in Settings.", <<>>))
      ELSE IF err = CodeError("NO_CREDITS")
        THEN AfterMain(addToast([r1 EXCEPT !.failedPosts = Append(@, run.idx)],
                                "error", "No credits on your OpenRouter account.", <<>>))
      ELSE LET r2 == [r1 EXCEPT !.failedPosts = Append(@, run.idx)]
           IN  IF r2.consecutiveFailures >= CooldownAfter
                 THEN addToast([r2 EXCEPT !.pc = "mainCooldown", !.delay = CooldownDelay],
                               "info", "Rate limited. Waiting 15s before continuing...", <<>>)
                 ELSE [r2 EXCEPT !.pc = "mainBackoff",
                                 !.delay = BackoffStep * r2.consecutiveFailures]

\* a catch block that breaks on NO_API_KEY only
MainCatchInvalidKeyGoesOn(run, err) ==
  LET r1 == [Caught(run, err) EXCEPT !.consecutiveFailures = @ + 1]
  IN  IF err = CodeError("NO_API_KEY")
        THEN AfterMain(addToast(r1, "error", "Please add your OpenRouter API key in Settings.", <<>>))
      ELSE LET r2 == [r1 EXCEPT !.failedPosts = Append(@, run.idx)]
           IN  IF r2.consecutiveFailures >= CooldownAfter
                 THEN addToast([r2 EXCEPT !.pc = "mainCooldown", !.delay = CooldownDelay],
                               "info", "Rate limited. Waiting 15s before continuing...", <<>>)
                 ELSE [r2 EXCEPT !.pc = "mainBackoff",
                                 !.delay = BackoffStep * r2.consecutiveFailures]

\* a catch block whose backoff does not grow with the failures
MainCatchFixedBackoff(run, err) ==
  LET r1 == [Caught(run, err) EXCEPT !.consecutiveFailures = @ + 1]
  IN  IF err = CodeError("NO_API_KEY")
        THEN AfterMain(addToast(r1, "error", "Please add your OpenRouter API key in Settings.", <<>>))
      ELSE IF err = CodeError("INVALID_KEY")
        THEN AfterMain(addToast(r1, "error", "Your API key is invalid. Please check it in Settings.", <<>>))
      ELSE LET r2 == [r1 EXCEPT !.failedPosts = Append(@, run.idx)]
           IN  IF r2.consecutiveFailures >= CooldownAfter
                 THEN addToast([r2 EXCEPT !.pc = "mainCooldown", !.delay = CooldownDelay],
                               "info", "Rate limited. Waiting 15s before continuing...", <<>>)
                 ELSE [r2 EXCEPT !.pc = "mainBackoff", !.delay = BackoffStep]

\* the catch block of the main loop, lines 70-96
MainCatch(run, err) ==
  LET r1 == [Caught(run, err) EXCEPT !.consecutiveFailures = @ + 1]
  IN  IF err = CodeError("NO_API_KEY")
        THEN AfterMain(addToast(r1, "error", "Please add your OpenRouter API key in Settings.", <<>>))
      ELSE IF err = CodeError("INVALID_KEY")
        THEN AfterMain(addToast(r1, "error", "Your API key is invalid. Please check it in Settings.", <<>>))
      ELSE LET r2 == [r1 EXCEPT !.failedPosts = Append(@, run.idx)]
           IN  IF r2.consecutiveFailures >= CooldownAfter
                 THEN addToast([r2 EXCEPT !.pc = "mainCooldown", !.delay = CooldownDelay],
                               "info", "Rate limited. Waiting 15s before continuing...", <<>>)
                 ELSE [r2 EXCEPT !.pc = "mainBackoff",
                                 !.delay = BackoffStep * r2.consecutiveFailures]

\* the main loop from its next position on, lines 56-58, up to the await of
\* analyzePost
MainLoop(run, stored) ==
  IF run.idx >= Len(run.untaggedPosts) THEN AfterMain(run)
  ELSE LET post == run.untaggedPosts[run.idx + 1]
           r1   == [run EXCEPT !.idx = @ + 1,
                               !.attempts = Append(@, <<run.idx + 1, "main">>)]
           st   == analyzePostStart(PostUrl(post), PostCaption(post), stored)
       IN  IF st.pc = "thrown"
             THEN MainCatch([r1 EXCEPT !.only429 = FALSE], st.error)
           ELSE [r1 EXCEPT !.pc = "mainCall"]

\* ------------------------------------------------------------------- state
\* apiKey: localStorage['archivr-openrouter-key'] ("" when absent)
\* call:   the analyzePost invocation under way (specification SpecOne)
\* posts:  usePostStore.posts, by post id
\* run:    the handleAIAutoTag run (specification Spec)
\* single: the handleAIAnalyze call of the collection page (specification Spec)
VARIABLES apiKey, call, posts, run, single, route

vars == <<apiKey, call, posts, run, single, route>>

FreshPost == SavedPost(FALSE, FALSE, <<>>)

AnalyzedPost == SavedPost(TRUE, FALSE, <<"travel">>)

DeletedPost == SavedPost(FALSE, TRUE, <<>>)

\* bound: how many single-post analyses are started beside the batch
MaxSingles == 1

IdleSingle == [pc |-> "idle", post |-> 0, started |-> 0, toast |-> ""]

\* bound: the posts awaiting analysis when a single-post analysis runs beside
\* the batch (specification SpecShared)
MaxSharedPosts == 3

\* a store of n posts that still await analysis, followed by posts that are
\* analyzed already or soft-deleted
Store(n) ==
  [p \in PostIds |->
     IF p <= n THEN FreshPost ELSE IF p % 2 = 0 THEN AnalyzedPost ELSE DeletedPost]

\* ---------------------------------------------- one analyzePost invocation
InitOne ==
  /\ apiKey \in Keys
  /\ call = IdleCall
  /\ posts = [p \in PostIds |-> FreshPost]
  /\ run = IdleRun
  /\ single = IdleSingle
  /\ route = IdleRoute

\* analyzePost is called: synchronous up to its first fetch
AnalyzePostCalled ==
  /\ call.pc = "idle"
  /\ \E url \in Urls, caption \in Captions :
       call' = analyzePostStart(url, caption, apiKey)
  /\ UNCHANGED <<apiKey, posts, run, single, route>>

\* a free model's request is answered
FreeModelAnswers ==
  /\ call.pc = "free"
  /\ \E up \in Responses : call' = FreeStep(call, up)
  /\ UNCHANGED <<apiKey, posts, run, single, route>>

\* a paid model's request is answered
PaidModelAnswers ==
  /\ call.pc = "paid"
  /\ \E up \in Responses : call' = PaidStep(call, up)
  /\ UNCHANGED <<apiKey, posts, run, single, route>>

\* the settings page stores the typed key (possibly empty) at any time
handleSaveKey ==
  /\ \E k \in Keys : apiKey' = k
  /\ UNCHANGED <<call, posts, run, single, route>>

\* the caller takes the outcome; the next invocation can begin
AnalyzePostSettled ==
  /\ Ended(call)
  /\ call' = IdleCall
  /\ UNCHANGED <<apiKey, posts, run, single, route>>

NextOne ==
  \/ AnalyzePostCalled
  \/ FreeModelAnswers
  \/ PaidModelAnswers
  \/ handleSaveKey
  \/ AnalyzePostSettled

SpecOne == InitOne /\ [][NextOne]_vars

\* ------------------------------------------------------------- the batch
Init ==
  /\ apiKey \in Keys
  /\ call = IdleCall
  /\ \E n \in 0..MaxPosts : posts = Store(n)
  /\ run = IdleRun
  /\ single = IdleSingle
  /\ route = IdleRoute

\* the post the main loop / the retry loop is at
MainPost == run.untaggedPosts[run.idx]

RetryPos == run.failedPosts[run.ridx]

RetryPost == run.untaggedPosts[RetryPos]

\* result.tags.map(...) of bulkAddTags on a result without tags
TagsTypeError == Msg("Cannot read properties of undefined (reading 'map')", 0, {})

\* a handler without the empty-snapshot return of lines 44-47
handleAIAutoTagNoEmptyCheck ==
  /\ ~run.isAutoTagging
  /\ LET untaggedPosts == UntaggedFrom(posts, 1)
     IN  run' =
           IF ~hasApiKey(apiKey)
             THEN addToast(IdleRun, "error",
                           "Please add your OpenRouter API key in Settings first.", <<>>)
           ELSE MainLoop(addToast([IdleRun EXCEPT !.isAutoTagging = TRUE,
                                                  !.untaggedPosts = untaggedPosts],
                                  "ai", "Analyzing posts...", <<Len(untaggedPosts)>>),
                         apiKey)
  /\ UNCHANGED <<apiKey, call, posts, single, route>>

\* the Auto-Tag button (disabled while a run is under way), lines 36-58; an
\* invocation that returns at line 39 or 46 leaves nothing but its toast
handleAIAutoTag ==
  /\ ~run.isAutoTagging
  /\ LET untaggedPosts == UntaggedFrom(posts, 1)
     IN  run' =
           IF ~hasApiKey(apiKey)
             THEN addToast(IdleRun, "error",
                           "Please add your OpenRouter API key in Settings first.", <<>>)
           ELSE IF Len(untaggedPosts) = 0
             THEN addToast(IdleRun, "info", "All posts are already analyzed!", <<>>)
           ELSE MainLoop(addToast([IdleRun EXCEPT !.isAutoTagging = TRUE,
                                                  !.untaggedPosts = untaggedPosts],
                                  "ai", "Analyzing posts...", <<Len(untaggedPosts)>>),
                         apiKey)
  /\ UNCHANGED <<apiKey, call, posts, single, route>>

\* main pass: analyzePost settles, line 58; on a result bulkAddTags updates
\* the store and awaits the database, line 59
MainAnalyzed ==
  /\ run.pc = "mainCall"
  /\ \E o \in analyzePostOutcomes(PostUrl(MainPost), PostCaption(MainPost)) :
       IF o.ok /\ o.value.hasTags
         THEN /\ posts' = bulkAddTags(posts, MainPost, o.value.tags)
              /\ run' = [run EXCEPT !.pc = "mainTagging",
                                    !.lastError = NoMsg,
                                    !.only429 = FALSE,
                                    !.returnedTags = @ \cup {run.idx}]
         ELSE /\ run' = MainCatch([run EXCEPT !.only429 = @ /\ o.only429],
                                  IF o.ok THEN TagsTypeError ELSE o.err)
              /\ UNCHANGED posts
  /\ UNCHANGED <<apiKey, call, single, route>>

\* main pass: bulkAddTags settled; updatePost marks the post, line 60
MainTagged ==
  /\ run.pc = "mainTagging"
  /\ posts' = updatePost(posts, MainPost)
  /\ run' = [run EXCEPT !.pc = "mainMarking"]
  /\ UNCHANGED <<apiKey, call, single, route>>

\* a success step that tests the count for the progress toast before
\* incrementing it
MainMarkedTestsOldCount ==
  /\ run.pc = "mainMarking"
  /\ LET processed == run.processed + 1
         r1        == [run EXCEPT
                         !.pc = "mainSleep",
                         !.processed = processed,
                         !.consecutiveFailures = 0,
                         !.counted = Append(@, <<run.idx, "main">>),
                         !.delay = PostDelay]
     IN  run' = IF run.processed % ProgressEvery = 0
                  THEN addToast(r1, "ai", "Analyzed some of the posts...",
                                <<processed, Len(run.untaggedPosts)>>)
                  ELSE r1
  /\ UNCHANGED <<apiKey, call, posts, single, route>>

\* main pass: updatePost settled, lines 61-69
MainMarked ==
  /\ run.pc = "mainMarking"
  /\ LET processed == run.processed + 1
         r1        == [run EXCEPT
                         !.pc = "mainSleep",
                         !.processed = processed,
                         !.consecutiveFailures = 0,
                         !.counted = Append(@, <<run.idx, "main">>),
                         !.delay = PostDelay]
     IN  run' = IF processed % ProgressEvery = 0
                  THEN addToast(r1, "ai", "Analyzed some of the posts...",
                                <<processed, Len(run.untaggedPosts)>>)
                  ELSE r1
  /\ UNCHANGED <<apiKey, call, posts, single, route>>

\* a main loop that does not reset the count after the cooldown
MainResumesKeepsCount ==
  /\ run.pc \in {"mainSleep", "mainBackoff", "mainCooldown"}
  /\ run' = MainLoop(run, apiKey)
  /\ UNCHANGED <<apiKey, call, posts, single, route>>

\* main pass: a setTimeout of line 69, 89 or 94 fires; the loop goes on
MainResumes ==
  /\ run.pc \in {"mainSleep", "mainBackoff", "mainCooldown"}
  /\ run' = MainLoop([run EXCEPT !.consecutiveFailures =
                        IF run.pc = "mainCooldown" THEN 0 ELSE @], apiKey)
  /\ UNCHANGED <<apiKey, call, posts, single, route>>

\* the settle delay of line 102 is over; the retry loop begins
RetryBegins ==
  /\ run.pc = "retrySettle"
  /\ run' = RetryLoop(run, posts, apiKey)
  /\ UNCHANGED <<apiKey, call, posts, single, route>>

\* retry pass: analyzePost settles, lines 110-111 and 115-118
RetryAnalyzed ==
  /\ run.pc = "retryCall"
  /\ \E o \in analyzePostOutcomes(PostUrl(RetryPost), PostCaption(RetryPost)) :
       IF o.ok /\ o.value.hasTags
         THEN /\ posts' = bulkAddTags(posts, RetryPost, o.value.tags)
              /\ run' = [run EXCEPT !.pc = "retryTagging", !.lastError = NoMsg,
                                    !.only429 = FALSE]
         ELSE /\ run' = RetryCatch([run EXCEPT !.only429 = @ /\ o.only429],
                                   IF o.ok THEN TagsTypeError ELSE o.err)
              /\ UNCHANGED posts
  /\ UNCHANGED <<apiKey, call, single, route>>

\* retry pass: bulkAddTags settled; updatePost marks the post, line 112
RetryTagged ==
  /\ run.pc = "retryTagging"
  /\ posts' = updatePost(posts, RetryPost)
  /\ run' = [run EXCEPT !.pc = "retryMarking"]
  /\ UNCHANGED <<apiKey, call, single, route>>

\* a retry pass that does not count its successes
RetryMarkedNoCount ==
  /\ run.pc = "retryMarking"
  /\ run' = [run EXCEPT !.pc = "retrySleep",
                        !.counted = Append(@, <<RetryPos, "retry">>),
                        !.delay = RetryOkDelay]
  /\ UNCHANGED <<apiKey, call, posts, single, route>>

\* retry pass: updatePost settled, lines 113-114
RetryMarked ==
  /\ run.pc = "retryMarking"
  /\ run' = [run EXCEPT !.pc = "retrySleep",
                        !.processed = @ + 1,
                        !.counted = Append(@, <<RetryPos, "retry">>),
                        !.delay = RetryOkDelay]
  /\ UNCHANGED <<apiKey, call, posts, single, route>>

\* retry pass: the setTimeout of line 114 or 117 fires; the loop goes on
RetryResumes ==
  /\ run.pc = "retrySleep"
  /\ run' = RetryLoop(run, posts, apiKey)
  /\ UNCHANGED <<apiKey, call, posts, single, route>>

\* ------------------------------------- handleAIAnalyze ([collectionId]/page)
\* the Analyze button of one post card, lines 68-77 of the page
handleAIAnalyze ==
  /\ single.pc = "idle"
  /\ single.started < MaxSingles
  /\ \E p \in PostIds :
       /\ ~posts[p].isDeleted
       /\ single' =
            IF ~hasApiKey(apiKey)
              THEN [single EXCEPT !.started = @ + 1,
                     !.toast = "error: Please add your OpenRouter API key in Settings first."]
              ELSE [single EXCEPT !.started = @ + 1, !.pc = "call", !.post = p,
                     !.toast = "ai: Archivr AI is analyzing..."]
  /\ UNCHANGED <<apiKey, call, posts, run, route>>

\* its analyzePost settles, lines 78-79 and 82-95
SingleAnalyzed ==
  /\ single.pc = "call"
  /\ \E o \in analyzePostOutcomes(PostUrl(single.post), PostCaption(single.post)) :
       IF o.ok /\ o.value.hasTags
         THEN /\ posts' = bulkAddTags(posts, single.post, o.value.tags)
              /\ single' = [single EXCEPT !.pc = "tagging"]
         ELSE /\ single' = [single EXCEPT !.pc = "idle", !.toast = "error: AI analysis failed"]
              /\ UNCHANGED posts
  /\ UNCHANGED <<apiKey, call, run, route>>

\* bulkAddTags settled; updatePost marks the post, line 80
SingleTagged ==
  /\ single.pc = "tagging"
  /\ posts' = updatePost(posts, single.post)
  /\ single' = [single EXCEPT !.pc = "marking"]
  /\ UNCHANGED <<apiKey, call, run, route>>

\* updatePost settled, lines 81 and 96-98
SingleMarked ==
  /\ single.pc = "marking"
  /\ single' = [single EXCEPT !.pc = "idle", !.toast = "success: Added tags!"]
  /\ UNCHANGED <<apiKey, call, posts, run, route>>

\* the batch, with the key changing under it
Next ==
  \/ handleAIAutoTag
  \/ MainAnalyzed
  \/ MainTagged
  \/ MainMarked
  \/ MainResumes
  \/ RetryBegins
  \/ RetryAnalyzed
  \/ RetryTagged
  \/ RetryMarked
  \/ RetryResumes
  \/ handleSaveKey

Spec == Init /\ [][Next]_vars

\* the steps of a run under way: a pending promise (the analyzePost call, a
\* store write) settles or a timer fires
BatchStep ==
  \/ MainAnalyzed
  \/ MainTagged
  \/ MainMarked
  \/ MainResumes
  \/ RetryBegins
  \/ RetryAnalyzed
  \/ RetryTagged
  \/ RetryMarked
  \/ RetryResumes

\* the batch when every promise it awaits settles and every timer fires
SpecLive == Init /\ [][Next]_vars /\ WF_vars(BatchStep)

\* the batch beside single-post analyses of the collection page
InitShared ==
  /\ apiKey \in Keys
  /\ call = IdleCall
  /\ \E n \in 0..MaxSharedPosts : posts = Store(n)
  /\ run = IdleRun
  /\ single = IdleSingle
  /\ route = IdleRoute

NextShared ==
  \/ handleAIAutoTag
  \/ MainAnalyzed
  \/ MainTagged
  \/ MainMarked
  \/ MainResumes
  \/ RetryBegins
  \/ RetryAnalyzed
  \/ RetryTagged
  \/ RetryMarked
  \/ RetryResumes
  \/ handleSaveKey
  \/ handleAIAnalyze
  \/ SingleAnalyzed
  \/ SingleTagged
  \/ SingleMarked

SpecShared == InitShared /\ [][NextShared]_vars

\* ------------------------------------------- the route decoding one result
InitDecode ==
  /\ apiKey \in Keys
  /\ call = IdleCall
  /\ posts = [p \in PostIds |-> FreshPost]
  /\ run = IdleRun
  /\ single = IdleSingle
  /\ route = IdleRoute

\* route.ts line 39: callOpenRouter returned the completion text
RouteReceives ==
  /\ route.pc = "idle"
  /\ \E rawResponse \in Texts :
       route' = [route EXCEPT !.pc = "decoding", !.rawResponse = rawResponse]
  /\ UNCHANGED <<apiKey, call, posts, run, single>>

\* route.ts lines 41-58: the text is decoded
RouteDecodes ==
  /\ route.pc = "decoding"
  /\ route' = [route EXCEPT !.pc = "responded", !.result = DecodeText(route.rawResponse)]
  /\ UNCHANGED <<apiKey, call, posts, run, single>>

\* route.ts line 60: the response is sent; the next request can come
RouteResponds ==
  /\ route.pc = "responded"
  /\ route' = IdleRoute
  /\ UNCHANGED <<apiKey, call, posts, run, single>>

NextDecode ==
  \/ RouteReceives
  \/ RouteDecodes
  \/ RouteResponds

SpecDecode == InitDecode /\ [][NextDecode]_vars

\* ------------------------------------------------- bulkAddTags on its own
\* bound: the posts bulkAddTags is called for
MaxTaggedPosts == 2

\* bound: the length of the tag lists given to bulkAddTags
MaxTagsGiven == 2

TagLists ==
  LET lists[n \in 0..MaxTagsGiven] ==
        IF n = 0 THEN {<<>>}
        ELSE lists[n - 1] \cup {Append(l, t) : l \in lists[n - 1], t \in RawTags}
  IN  lists[MaxTagsGiven]

InitTags ==
  /\ apiKey \in Keys
  /\ call = IdleCall
  /\ posts = Store(MaxTaggedPosts)
  /\ run = IdleRun
  /\ single = IdleSingle
  /\ route = IdleRoute

\* bulkAddTags(postId, tags) is called and its store update is made
bulkAddTagsCalled ==
  /\ \E postId \in 1..MaxTaggedPosts, tags \in TagLists :
       posts' = bulkAddTags(posts, postId, tags)
  /\ UNCHANGED <<apiKey, call, run, single, route>>

NextTags == bulkAddTagsCalled

SpecTags == InitTags /\ [][NextTags]_vars

\* ------------------------------------------ properties of one analyzePost
FourErrors ==
  {CodeError("NO_API_KEY"), CodeError("INVALID_KEY"),
   CodeError("NO_CREDITS"), CodeError("ALL_MODELS_FAILED")}

\* the last gateway call went to a free model / some paid model was called
LastWasFree == Len(call.calls) >= 1 /\ Len(call.calls) <= Len(FREE_MODELS)

PaidAttempted == Len(call.calls) > Len(FREE_MODELS)

\* what the last gateway call threw to analyzePost
LastError == callApiRoute(call.calls[Len(call.calls)], call.apiKey, call.last).err

\* C3 (as stated): analyzePost fails only with NO_API_KEY, INVALID_KEY,
\* NO_CREDITS or ALL_MODELS_FAILED, whatever the models answer.
C3_OnlyFourErrors ==
  call.pc = "thrown" => call.error \in FourErrors

\* C3 (amended): analyzePost fails with one of the four codes or, when the
\* failing call went to a free model and its error has neither a rate-limit
\* nor an auth word, with that gateway error unchanged; once a paid model has
\* been called it fails only with NO_CREDITS or ALL_MODELS_FAILED.
C3_ErrorVocabulary ==
  call.pc = "thrown" =>
    /\ \/ call.error \in FourErrors
       \/ /\ LastWasFree
          /\ call.error = LastError
          /\ call.error.head \in
               {"OpenRouter API error", "No content in OpenRouter response", "fetch failed"}
          /\ \A w \in {"429", "rate", "401", "invalid", "Unauthorized"} :
               ~Includes(call.error, w)
    /\ PaidAttempted =>
         call.error \in {CodeError("NO_CREDITS"), CodeError("ALL_MODELS_FAILED")}

\* a free model answered 402 and analyzePost threw the gateway's own error
C3_Witness ==
  /\ call.pc = "thrown"
  /\ LastWasFree
  /\ call.last.status = 402
  /\ call.error = Msg("OpenRouter API error", 402, {})

\* C4: in the free tier, after only 429 answers, a 401 answer (whatever its
\* body) makes analyzePost fail with INVALID_KEY at once, no further call.
C4_UnauthorizedIsInvalidKey ==
  (/\ LastWasFree
   /\ call.last.status = 401
   /\ call.free429 = Len(call.calls) - 1)
    => (call.pc = "thrown" /\ call.error = CodeError("INVALID_KEY"))

\* C6: a paid model is called iff every free model was called, in order, and
\* each answered 429; and then the first paid model is called before failing.
C6_PaidIffFreeExhausted ==
  /\ (call.pc = "paid" \/ PaidAttempted) =>
       /\ call.free429 = Len(FREE_MODELS)
       /\ SubSeq(call.calls, 1, Len(FREE_MODELS)) = FREE_MODELS
  /\ call.free429 = Len(FREE_MODELS) =>
       /\ call.pc = "paid" \/ PaidAttempted
       /\ Ended(call) => call.calls[Len(FREE_MODELS) + 1] = PAID_MODELS[1]

\* C7: analyzePost returns the decoded result of the first successful gateway
\* call and calls no model after it (one call when the first model succeeds).
C7_FirstSuccessWins ==
  /\ call.afterSuccess = 0
  /\ call.successes <= 1
  /\ call.successes = 1 =>
       /\ call.pc = "returned"
       /\ call.result = Decode(call.last.content)
  /\ call.pc = "returned" => call.successes = 1

\* the first free model succeeded: one call, its result returned
C7_Witness ==
  /\ call.pc = "returned"
  /\ call.calls = <<FREE_MODELS[1]>>
  /\ call.result = ModelResult

\* C8: with no stored key analyzePost fails with NO_API_KEY without any
\* gateway call, for every url and caption.
C8_NoKeyNoCalls ==
  (call.pc # "idle" /\ call.apiKey = "") =>
    /\ call.pc = "thrown"
    /\ call.error = CodeError("NO_API_KEY")
    /\ call.calls = <<>>

C8_Witness ==
  /\ call.pc = "thrown"
  /\ call.apiKey = ""
  /\ call.error = CodeError("NO_API_KEY")
  /\ call.prompt.captionLine # <<>>

\* ------------------------------------------------- properties of the batch
Total == Len(run.untaggedPosts)

MainInFlight == run.pc \in {"mainCall", "mainTagging", "mainMarking"}

RetryInFlight == run.pc \in {"retryCall", "retryTagging", "retryMarking"}

\* the positions analyzePost was called for / processed++ ran for, in a pass
Attempted(pass) == {a[1] : a \in {x \in Seen(run.attempts) : x[2] = pass}}

Counted(pass) == {c[1] : c \in {x \in Seen(run.counted) : x[2] = pass}}

\* how many analyzePost calls position pos got
Calls(pos, pass) ==
  Cardinality({k \in 1..Len(run.attempts) : run.attempts[k] = <<pos, pass>>})

\* C1: after a NO_API_KEY or INVALID_KEY failure in the main pass the run is
\* over: the retry pass is not entered and analyzePost is not called again,
\* not even for posts that failed before the fatal error.
C1_FatalIsTerminal ==
  run.fatalAt # 0 =>
    /\ run.pc = "done"
    /\ run.retryEntered = 0
    /\ run.attempts[Len(run.attempts)] = <<run.fatalAt, "main">>

\* C2: when analyzePost fails with NO_API_KEY or INVALID_KEY at position k of
\* the main pass, the main pass stops there: it has called analyzePost for
\* the positions 1..k and no other, and it has processed exactly the positions
\* before k whose analyzePost returned tags.
C2_MainPassStopsAtFatal ==
  run.fatalAt # 0 =>
    /\ ~MainInFlight
    /\ run.pc \notin {"mainSleep", "mainBackoff", "mainCooldown"}
    /\ run.idx = run.fatalAt
    /\ Attempted("main") = 1..run.fatalAt
    /\ \A pos \in 1..run.fatalAt : Calls(pos, "main") = 1
    /\ Counted("main") = run.returnedTags
    /\ run.returnedTags \subseteq 1..(run.fatalAt - 1)
    /\ run.processed - Cardinality(Counted("retry")) = Cardinality(run.returnedTags)
    /\ \A pos \in run.returnedTags : posts[run.untaggedPosts[pos]].aiAnalyzed

\* posts 1 and 2 were processed, post 3 hit INVALID_KEY, posts 4 and 5 were
\* never attempted
C2_Witness ==
  /\ run.fatalAt = 3
  /\ Total = 5
  /\ run.lastError = CodeError("INVALID_KEY")
  /\ run.processed = 2
  /\ run.pc = "done"

\* the accounting of C5: not yet visited (the post in flight included), failed
\* and not yet retried (the post in flight included)
Unvisited == Total - run.idx + (IF MainInFlight THEN 1 ELSE 0)

FailedNotRetried ==
  Len(run.failedPosts) - run.ridx + (IF RetryInFlight THEN 1 ELSE 0)

\* failed posts whose second attempt failed too
FailedAgain ==
  (Attempted("retry") \ Counted("retry"))
    \ (IF RetryInFlight THEN {run.failedPosts[run.ridx]} ELSE {})

GivenUp ==
  (IF run.fatalAt # 0 THEN 1 ELSE 0)
    + Cardinality(run.skipped) + Cardinality(FailedAgain)

NoDuplicates(seq) == \A i, j \in 1..Len(seq) : seq[i][1] = seq[j][1] => i = j

\* C5 (as stated): at every point of a batch, processed + not yet visited +
\* failed and not yet retried = total, and no post is counted twice.
C5_Accounting ==
  run.pc # "idle" =>
    /\ run.processed + Unvisited + FailedNotRetried = Total
    /\ NoDuplicates(run.counted)

\* C5 (amended): at every point of a batch, processed + not yet visited +
\* failed and not yet retried + given up = total, where given up are the post
\* whose attempt ended in the fatal error and the failed posts whose retry
\* failed again or was skipped; no post is counted twice in processed.
C5_AccountingWithGivenUp ==
  run.pc # "idle" =>
    /\ run.processed + Unvisited + FailedNotRetried + GivenUp = Total
    /\ NoDuplicates(run.counted)
    /\ Len(run.counted) = run.processed

\* a finished run with one post processed, one failed twice and one lost to
\* the fatal error
C5_Witness ==
  /\ run.pc = "done"
  /\ Total = 3
  /\ run.processed = 1
  /\ run.fatalAt = 3
  /\ Cardinality(FailedAgain) = 1

\* C9 (as stated): in the retry pass every post of failedPosts is attempted
\* exactly once more; the retry pass is entered at most once and no post gets
\* more than two analyzePost calls.
C9_EachFailedRetriedOnce ==
  /\ run.retryEntered <= 1
  /\ \A pos \in 1..Total : Calls(pos, "main") + Calls(pos, "retry") <= 2
  /\ (run.pc = "done" /\ run.retryEntered = 1) =>
       \A k \in 1..Len(run.failedPosts) : Calls(run.failedPosts[k], "retry") = 1

\* C9 (amended): in the retry pass every post of failedPosts is attempted
\* exactly once more unless the store shows it analyzed when its turn comes,
\* and then it is skipped without a call; a retried post that succeeds is
\* added to processed, one that fails again is not attempted further; no post
\* gets more than two analyzePost calls and the retry pass is entered at most
\* once.
C9_RetryAtMostOnce ==
  /\ run.retryEntered <= 1
  /\ \A pos \in 1..Total :
       /\ Calls(pos, "main") <= 1
       /\ Calls(pos, "retry") <= 1
       /\ Calls(pos, "retry") = 1 => pos \in Seen(run.failedPosts)
  /\ Attempted("retry") \cap run.skipped = {}
  /\ \A pos \in run.skipped : posts[run.untaggedPosts[pos]].aiAnalyzed
  /\ Counted("retry") \subseteq Attempted("retry")
  /\ (run.pc = "done" /\ run.retryEntered = 1) =>
       /\ Attempted("retry") \cup run.skipped = Seen(run.failedPosts)
       /\ run.processed = Cardinality(Counted("main")) + Cardinality(Counted("retry"))

\* three failed posts: one skipped, one processed by its retry, one failed again
C9_Witness ==
  /\ run.pc = "done"
  /\ run.failedPosts = <<1, 2, 3>>
  /\ Cardinality(run.skipped) = 1
  /\ Cardinality(Counted("retry")) = 1
  /\ Cardinality(FailedAgain) = 1

\* C10: a NO_CREDITS or ALL_MODELS_FAILED failure in the main pass does not
\* stop the batch: the post is recorded in failedPosts, the run waits and goes
\* on, and the main pass attempts the posts in input order without a gap, all
\* of them unless a fatal error ends it.
C10_NonFatalGoesOn ==
  /\ (/\ run.lastError \in {CodeError("NO_CREDITS"), CodeError("ALL_MODELS_FAILED")}
      /\ run.attempts[Len(run.attempts)] = <<run.idx, "main">>
      /\ ~MainInFlight)
       => /\ run.idx \in Seen(run.failedPosts)
          /\ run.isAutoTagging
          /\ run.pc \in {"mainBackoff", "mainCooldown"} \/ run.idx = Total
  /\ \A k \in 1..Len(run.attempts) :
       run.attempts[k][2] = "main" => run.attempts[k] = <<k, "main">>
  /\ (run.pc \in {"retrySettle", "retrySleep", "done"} \/ RetryInFlight) =>
       (run.fatalAt # 0 \/ Attempted("main") = 1..Total)

\* post 1 failed with NO_CREDITS, was recorded, and post 2 is being analyzed
C10_Witness ==
  /\ run.pc = "mainCall"
  /\ run.idx = 2
  /\ run.failedPosts = <<1>>
  /\ run.lastError = CodeError("NO_CREDITS")

\* the toasts of the run
LastToast == run.toasts[Len(run.toasts)]

NothingProcessed == Toast("error", "All AI models are currently busy.", <<>>)

InMainPass ==
  MainInFlight \/ run.pc \in {"mainSleep", "mainBackoff", "mainCooldown"}

Started == run.isAutoTagging \/ run.pc = "done"

\* C11: in a batch of N >= 1 posts where every model answers 429 on every
\* call, nothing is processed, the main pass records every post in
\* failedPosts in input order, the retry pass is entered once and calls
\* analyzePost a second time for each post, and the run ends with the
\* "all models busy" report.
C11_AllRateLimited ==
  (Started /\ run.only429) =>
    /\ Total >= 1
    /\ run.processed = 0
    /\ run.fatalAt = 0
    /\ run.failedPosts =
         [k \in 1..(IF MainInFlight THEN run.idx - 1 ELSE run.idx) |-> k]
    /\ ~InMainPass =>
         /\ run.failedPosts = [k \in 1..Total |-> k]
         /\ run.retryEntered = 1
    /\ run.pc = "done" =>
         /\ \A pos \in 1..Total : Calls(pos, "main") = 1 /\ Calls(pos, "retry") = 1
         /\ Len(run.attempts) = 2 * Total
         /\ ~run.isAutoTagging
         /\ LastToast = NothingProcessed

\* five posts, all models rate-limited throughout: the fifth failure went
\* through the cooldown, the retry pass was run and the batch has ended
C11_Witness ==
  /\ run.pc = "done"
  /\ run.only429
  /\ Total = 5
  /\ Len(run.attempts) = 10
  /\ Toast("info", "Rate limited. Waiting 15s before continuing...", <<>>) \in Seen(run.toasts)

\* C12: the "all models busy" report ends only runs with processed = 0 that
\* met no NO_API_KEY or INVALID_KEY failure; a run with processed > 0 ends
\* with the success report carrying processed, the total and, when it is not
\* zero, the remainder total - processed.
C12_FinalReport ==
  run.pc = "done" =>
    /\ LastToast = NothingProcessed => (run.processed = 0 /\ run.fatalAt = 0)
    /\ run.processed > 0 =>
         /\ LastToast.variant = "success"
         /\ LastToast.counts[1] = run.processed
         /\ LastToast.counts[2] = Total
         /\ IF Total - run.processed > 0
              THEN LastToast.counts = <<run.processed, Total, Total - run.processed>>
              ELSE Len(LastToast.counts) = 2

\* the progress toasts of the run, oldest first
ProgressToasts ==
  SelectSeq(run.toasts, LAMBDA t : t.message = "Analyzed some of the posts...")

\* the main-pass positions whose analyzePost call has settled
Settled == Attempted("main") \ (IF run.pc = "mainCall" THEN {run.idx} ELSE {})

\* every analyzePost call of the run so far returned a result with tags
AllSucceeded == Started /\ Settled \subseteq run.returnedTags

FinalToasts ==
  SelectSeq(run.toasts, LAMBDA t : t.message \in {"Done! Analyzed posts",
                                                  "All AI models are currently busy."})

\* a started run either is under way, with the flag up and no final toast,
\* or has ended, with the flag cleared and one final toast, the last toast
RunShape ==
  /\ run.isAutoTagging => (run.pc \notin {"idle", "done"} /\ Len(FinalToasts) = 0)
  /\ run.pc = "done" =>
       /\ ~run.isAutoTagging
       /\ Len(FinalToasts) = 1
       /\ LastToast = FinalToasts[1]
  /\ run.pc \in
       {"idle", "mainCall", "mainTagging", "mainMarking", "mainSleep",
        "mainBackoff", "mainCooldown", "retrySettle", "retryCall",
        "retryTagging", "retryMarking", "retrySleep", "done"}

\* C14: nothing thrown under handleAIAutoTag leaves it: whatever each
\* analyzePost call returns or throws, a run that has started reaches its
\* end, where isAutoTagging is cleared and exactly one final report (success
\* or "all models busy") has been raised.
C14_RunCompletes ==
  /\ []RunShape
  /\ (run.isAutoTagging ~> run.pc = "done")

\* a run has ended after a second attempt threw an error that is none of the
\* four codes
C14_Witness ==
  /\ run.pc = "done"
  /\ run.retryEntered = 1
  /\ run.lastError # NoMsg
  /\ run.lastError \notin FourErrors
  /\ Len(FinalToasts) = 1

\* C15: a click on Auto-Tag with no stored key, or with no post that is
\* neither deleted nor analyzed, starts nothing: isAutoTagging stays false,
\* analyzePost is not called and the store is left alone; without a key the
\* toast is the error asking for the key, with a key and nothing to analyze
\* it is the info toast "All posts are already analyzed!".
C15_NothingToDo ==
  [][(/\ ~run.isAutoTagging
      /\ run' # run
      /\ ~hasApiKey(apiKey) \/ UntaggedFrom(posts, 1) = <<>>)
       => /\ ~run'.isAutoTagging
          /\ run'.pc = "idle"
          /\ run'.attempts = <<>>
          /\ posts' = posts
          /\ run'.toasts =
               IF ~hasApiKey(apiKey)
                 THEN <<Toast("error",
                              "Please add your OpenRouter API key in Settings first.", <<>>)>>
                 ELSE <<Toast("info", "All posts are already analyzed!", <<>>)>>]_vars

\* a click after a run that analyzed the last fresh post: only the info toast
C15_Witness ==
  /\ run.pc = "idle"
  /\ run.toasts = <<Toast("info", "All posts are already analyzed!", <<>>)>>
  /\ hasApiKey(apiKey)
  /\ UntaggedFrom(posts, 1) = <<>>
  /\ posts[1].aiAnalyzed

\* C16: after a run in which every post of the snapshot succeeded, the next
\* click on Auto-Tag starts no run, calls analyzePost for no post and leaves
\* the store as it is, so the posts of the finished run keep their tags and
\* their aiAnalyzed flag; and adding a post's own tags again changes nothing.
C16_RerunChangesNothing ==
  /\ [](\A p \in PostIds : bulkAddTags(posts, p, posts[p].tags) = posts)
  /\ [][(run.pc = "done" /\ AllSucceeded /\ run' # run)
          => /\ ~run'.isAutoTagging
             /\ run'.pc = "idle"
             /\ run'.attempts = <<>>
             /\ posts' = posts
             /\ \A k \in 1..Total :
                  /\ posts'[run.untaggedPosts[k]].aiAnalyzed
                  /\ posts'[run.untaggedPosts[k]].tags = ModelResult.tags]_vars

\* every post of the store went through an all-success run, and the click
\* that followed found nothing to analyze
C16_Witness ==
  /\ run.pc = "idle"
  /\ run.toasts = <<Toast("info", "All posts are already analyzed!", <<>>)>>
  /\ \A p \in PostIds :
       posts[p].aiAnalyzed /\ posts[p].tags = ModelResult.tags


\* a decoded value that is an analysis result: an object whose tags are an
\* array of strings and whose confidence is a number
IsAnalysisResult(value) ==
  /\ value.t = "object"
  /\ IsStringArray(Member(value, "tags:"))
  /\ Member(value, "confidence:").t = "number"

\* C17: whatever text the model returned, the route's decoder hands back
\* either a fully filled analysis result or exactly the fallback, never a
\* value with members missing.
C17_ValidOrFallback ==
  route.pc = "responded" =>
    \/ IsAnalysisResult(route.result)
    \/ route.result = FallbackJson

\* C18: when the text is exactly the JSON of a valid analysis result, the
\* decoder returns that very result and not the fallback.
C18_RoundTrip ==
  \A v \in ValidResults :
    (route.pc = "responded" /\ route.rawResponse = JSONstringify(JsonOf(v))) =>
      /\ route.result = JsonOf(v)
      /\ ResultOf(route.result) = v
      /\ route.result # FallbackJson

C18_Witness ==
  /\ route.pc = "responded"
  /\ route.rawResponse = JSONstringify(JsonOf(BraceResult))
  /\ ResultOf(route.result) = BraceResult

\* C19: whenever the provider answers a request with a non-2xx status,
\* whatever the body text, the route reports that status: 429 for 429, 401
\* for 401, 402 for 402, and any other status unchanged.
C19_StatusPreserved ==
  (call.calls # <<>> /\ call.last.status \in ErrorStatuses) =>
    POST(call.calls[Len(call.calls)], call.apiKey, call.last).status = call.last.status

\* a paid model has just answered 402 Payment Required
PaidPaymentRequired == PaidAttempted /\ call.last.status = 402

\* C20: when a paid model answers 402, whatever the body says and whichever
\* paid model it is, analyzePost fails with NO_CREDITS at once and calls no
\* later paid model.
C20_PaymentRequiredStops ==
  /\ [](PaidPaymentRequired =>
          call.pc = "thrown" /\ call.error = CodeError("NO_CREDITS"))
  /\ [][PaidPaymentRequired => (call'.calls = call.calls \/ call' = IdleCall)]_vars

C20_Witness ==
  /\ Len(call.calls) = Len(FREE_MODELS) + 1
  /\ call.last = Upstream(402, {"429"}, "")
  /\ call.pc = "thrown"
  /\ call.error = CodeError("NO_CREDITS")

\* the last gateway call went to a free model
FreeAnswered == call.calls # <<>> /\ Len(call.calls) <= Len(FREE_MODELS)

\* an upstream answer the gateway throws for that is neither 429 nor 401
OtherError(up) == ~callOpenRouter(up).ok /\ up.status \notin {429, 401}

\* C21: when a free model's request fails with an error that is neither
\* rate-limited nor unauthorized (402, another status, no content, a failed
\* fetch), analyzePost fails with that very error and calls no later model.
C21_OtherErrorPropagates ==
  (FreeAnswered /\ OtherError(call.last)) =>
    /\ call.pc = "thrown"
    /\ call.error = callOpenRouter(call.last).err

\* C22: analyzePost calls onStatusUpdate exactly when the last free model
\* answers 429: not before, once, and before the first paid model is called;
\* a 429 from any other model of either tier raises nothing.
C22_StatusNoteAtLastFree ==
  /\ Len(call.notes) <= 1
  /\ Len(call.calls) < Len(FREE_MODELS) => call.notes = <<>>
  /\ Len(call.calls) = Len(FREE_MODELS) =>
       (call.notes # <<>> <=> call.last.status = 429)
  /\ (call.pc = "paid" \/ PaidAttempted) => Len(call.notes) = 1

\* C23: one analyzePost invocation calls the models in the fixed order, the
\* five free ones and then the two paid ones, each at most once, so it makes
\* at most 7 gateway calls and then has ended.
C23_EachModelOnce ==
  /\ Len(FREE_MODELS) = 5 /\ Len(PAID_MODELS) = 2
  /\ Len(call.calls) <= 7
  /\ \A k \in 1..Len(call.calls) : call.calls[k] = ALL_MODELS[k]
  /\ \A j, k \in 1..Len(call.calls) : call.calls[j] = call.calls[k] => j = k
  /\ Len(call.calls) = 7 => Ended(call)

\* all seven models were called, the last one answered 429 as well
C23_Witness ==
  /\ Len(call.calls) = 7
  /\ call.only429
  /\ call.pc = "thrown"
  /\ call.error = CodeError("ALL_MODELS_FAILED")

\* how many positions in a row, ending at position upto of the main pass,
\* were recorded in failedPosts
FailStreak(upto) ==
  Max({k \in 0..upto : \A pos \in (upto - k + 1)..upto : pos \in Seen(run.failedPosts)})

MainPassLeft == run.pc \in {"retrySettle", "retryCall", "retryTagging", "retryMarking",
                            "retrySleep", "done"}

\* C25: consecutiveFailures is 0..4 whenever the main pass starts an item;
\* when the main pass ends without a fatal error and some post failed, the
\* retry pass is entered; with failed posts the retry pass is left out only
\* after a fatal error that was the fifth failure in a row.
C25_RetryGuard ==
  /\ run.pc = "mainCall" => run.consecutiveFailures \in 0..4
  /\ (MainPassLeft /\ run.fatalAt = 0 /\ run.failedPosts # <<>>) =>
       /\ run.retryEntered = 1
       /\ run.idx = Total
  /\ (MainPassLeft /\ run.failedPosts # <<>> /\ run.retryEntered = 0) =>
       /\ run.fatalAt # 0
       /\ run.consecutiveFailures = 5
       /\ FailStreak(run.fatalAt - 1) % 5 = 4

\* five posts failed one after the other, the fifth being the last one of the
\* main pass, and the retry pass is under way
C25_Witness ==
  /\ run.failedPosts = <<1, 2, 3, 4, 5>>
  /\ Total = 5
  /\ run.fatalAt = 0
  /\ run.retryEntered = 1
  /\ run.pc = "retryCall"

InRetryPass == run.pc \in {"retryCall", "retryTagging", "retryMarking", "retrySleep"}

\* a step of the retry pass in which analyzePost, or applying its result,
\* failed: the call under way did not lead to the tagging, or a call that was
\* just begun ended at once
RetryAttemptFails ==
  \/ run.pc = "retryCall" /\ run'.pc \notin {"retryCall", "retryTagging"}
  \/ /\ run.pc \in {"retrySettle", "retrySleep"}
     /\ Len(run'.attempts) > Len(run.attempts)
     /\ run'.pc # "retryCall"

PaymentError ==
  \E w \in {"402", "insufficient", "payment"} : Includes(LastError, w)

BatchCalls == run'.attempts # run.attempts /\ run'.attempts # <<>>

CalledPost == run'.untaggedPosts[run'.attempts[Len(run'.attempts)][1]]

\* C28: the batch never calls analyzePost for a post that the store shows as
\* analyzed at the moment of the call, also when a single-post analysis runs
\* between the batch's awaits.
C28_NoAnalyzedPostSent ==
  [][BatchCalls => ~posts[CalledPost].aiAnalyzed]_vars

\* the posts of the batch's snapshot that the store shows as analyzed: none
\* was when the snapshot was taken, and in Spec only the batch marks posts
Marked == {p \in Seen(run.untaggedPosts) : posts[p].aiAnalyzed}

\* the batch is between the store update of updatePost and processed++
Marking == run.pc \in {"mainMarking", "retryMarking"}

NoRepeat(seq) == \A i, j \in 1..Len(seq) : seq[i] = seq[j] => i = j

IsPrefix(s, t) == Len(s) <= Len(t) /\ SubSeq(t, 1, Len(s)) = s

\* C30: bulkAddTags on a post whose tag list has no duplicates leaves it
\* without duplicates, whatever tag list is given; the tags the post had keep
\* their places and no other post changes.
C30_NoDuplicateTags ==
  [][/\ \A p \in PostIds :
          NoRepeat(posts[p].tags) =>
            /\ NoRepeat(posts'[p].tags)
            /\ IsPrefix(posts[p].tags, posts'[p].tags)
     /\ Cardinality({p \in PostIds : posts'[p] # posts[p]}) <= 1]_vars

====
